---- MODULE Spec2Model ----
(***************************************************************************)
(* Model of configs/vulcan/prime_cache.c: the gem5 cache-priming workload. *)
(* main() is a straight-line program: aligned_alloc, a cold-initialisation *)
(* loop, a prime loop (read-modify-write per cache line), a verify loop    *)
(* (one read per cache line into a checksum), a volatile store to sink,    *)
(* free, return.  The two m5ops (m5_reset_stats / m5_dump_stats) are       *)
(* defined per target ISA but main() contains no call to either.           *)
(* Lines 39-42 of the file hold stray tokens outside every function; the   *)
(* model follows the functions and main() as written.                      *)
(***************************************************************************)
EXTENDS Integers, Sequences, FiniteSets

VARIABLES
    cacheSizeBytes,   \* CACHE_SIZE_BYTES of this build
    cacheLineBytes,   \* CACHE_LINE_BYTES of this build
    isa,              \* target instruction set selected by the #if chain
    pc,               \* position of main()
    buf,              \* the pointer buf: NoBuf before aligned_alloc, NULL or PTR
    mem,              \* bytes of the region buf points to (<<>> if none)
    live,             \* TRUE while the region is allocated and not yet freed
    i,                \* loop variable of the cold loop
    line,             \* loop variable of the prime / verify loops
    checksum,         \* uint64_t checksum
    sink,             \* volatile uint8_t sink
    exitStatus,       \* value returned by main, NoExit while running
    stderrLines,      \* lines written to stderr
    m5ops,            \* magic instructions executed (seen by the simulator)
    trace,            \* every externally visible step of the run, in order
    firstSum          \* checksum of the previous verify pass (re-run only)

vars == <<cacheSizeBytes, cacheLineBytes, isa, pc, buf, mem, live, i, line, checksum,
          sink, exitStatus, stderrLines, m5ops, trace, firstSum>>

-----------------------------------------------------------------------------
(* Program constants *)

CACHE_SIZE_BYTES == 16384
CACHE_LINE_BYTES == 64

(* Bounds of the model *)

\* geometries cacheLineBytes <= cacheSizeBytes <= MaxSize are enumerated
MaxSize == 6
\* how many calls of an m5op are placed in main (SpecSignals)
MaxSignals == 2

UINT8 == 256

NULL == "NULL"
NoBuf == "unallocated"
PTR == "ptr"
NoExit == -1
NoSum == -1

ISAs == {"x86", "aarch64", "arm", "other"}

\* Geometries whose first bytes of a line reach 255, so that += 1 wraps.
WrapGeometries == {<<512, 255>>, <<510, 255>>}

SmallGeometries == {<<s, l>> \in (1..MaxSize) \X (1..MaxSize) : l <= s}

\* The builds explored besides the shipped one: the two #defines are meant to
\* be adjusted to the simulated cache.
Geometries == WrapGeometries \cup SmallGeometries

\* A byte of the region that has never been written: aligned_alloc returns
\* memory of indeterminate content.
Indeterminate == -1

Bytes == 0..(UINT8 - 1)

-----------------------------------------------------------------------------
(* Helpers *)

\* (variant: the quotient rounded up, so that a partial line counts as a line)
NumCacheLinesRoundedUp ==
    (cacheSizeBytes + cacheLineBytes - 1) \div cacheLineBytes

NUM_CACHE_LINES == cacheSizeBytes \div cacheLineBytes

\* The values a load of byte b can produce.
ReadByte(b) == IF b = Indeterminate THEN Bytes ELSE {b}

\* An entry of trace: the operation, the buffer offset (or 0), the byte value
\* read or written (or the size / status).
Event(op, off, val) == <<op, off, val>>

Op(e) == e[1]
Off(e) == e[2]
Val(e) == e[3]

-----------------------------------------------------------------------------
(* main *)

Start ==
    /\ isa \in ISAs
    /\ pc = "alloc"
    /\ buf = NoBuf
    /\ mem = <<>>
    /\ live = FALSE
    /\ i = 0
    /\ line = 0
    /\ checksum = 0
    /\ sink = 0
    /\ exitStatus = NoExit
    /\ stderrLines = <<>>
    /\ m5ops = <<>>
    /\ trace = <<>>
    /\ firstSum = NoSum

Init ==
    /\ \E g \in Geometries : cacheSizeBytes = g[1] /\ cacheLineBytes = g[2]
    /\ Start

\* The build with the constants as shipped.
InitShipped ==
    /\ cacheSizeBytes = CACHE_SIZE_BYTES
    /\ cacheLineBytes = CACHE_LINE_BYTES
    /\ Start

\* uint8_t *buf = aligned_alloc(CACHE_SIZE_BYTES, CACHE_SIZE_BYTES);
Alloc ==
    /\ pc = "alloc"
    /\ \/ /\ buf' = NULL
          /\ UNCHANGED <<mem, live>>
          /\ trace' = Append(trace, Event("alloc_fail", 0, cacheSizeBytes))
       \/ /\ buf' = PTR
          /\ mem' = [k \in 0..(cacheSizeBytes - 1) |-> Indeterminate]
          /\ live' = TRUE
          /\ trace' = Append(trace, Event("alloc_ok", 0, cacheSizeBytes))
    /\ pc' = "check"
    /\ UNCHANGED <<cacheSizeBytes, cacheLineBytes, isa, i, line, checksum, sink,
                   exitStatus, stderrLines, m5ops, firstSum>>

\* (variant: the diagnostic is printed but the return is missing)
AllocFailedFallsThrough ==
    /\ pc = "check"
    /\ buf = NULL
    /\ stderrLines' = Append(stderrLines, "aligned_alloc failed")
    /\ trace' = Append(trace, Event("stderr", 0, 1))
    /\ i' = 0
    /\ pc' = "cold"
    /\ UNCHANGED <<cacheSizeBytes, cacheLineBytes, isa, buf, mem, live, line,
                   checksum, sink, exitStatus, m5ops, firstSum>>

\* if (!buf) { fprintf(stderr, ...); return 1; }
AllocFailed ==
    /\ pc = "check"
    /\ buf = NULL
    /\ stderrLines' = Append(stderrLines, "aligned_alloc failed")
    /\ trace' = trace \o <<Event("stderr", 0, 1), Event("exit", 0, 1)>>
    /\ exitStatus' = 1
    /\ pc' = "done"
    /\ UNCHANGED <<cacheSizeBytes, cacheLineBytes, isa, buf, mem, live, i, line, checksum,
                   sink, m5ops, firstSum>>

\* buf non-null: enter the cold loop with i = 0
AllocOk ==
    /\ pc = "check"
    /\ buf # NULL
    /\ i' = 0
    /\ pc' = "cold"
    /\ UNCHANGED <<cacheSizeBytes, cacheLineBytes, isa, buf, mem, live, line, checksum, sink,
                   exitStatus, stderrLines, m5ops, trace, firstSum>>

\* (variant: the buffer is zero-filled instead of filled with its offsets)
ColdStepZero ==
    /\ pc = "cold"
    /\ i < cacheSizeBytes
    /\ mem' = [mem EXCEPT ![i] = 0]
    /\ trace' = Append(trace, Event("cold_w", i, 0))
    /\ i' = i + 1
    /\ UNCHANGED <<cacheSizeBytes, cacheLineBytes, isa, pc, buf, live, line,
                   checksum, sink, exitStatus, stderrLines, m5ops, firstSum>>

\* buf[i] = (uint8_t)i; i++
ColdStep ==
    /\ pc = "cold"
    /\ i < cacheSizeBytes
    /\ mem' = [mem EXCEPT ![i] = i % UINT8]
    /\ trace' = Append(trace, Event("cold_w", i, i % UINT8))
    /\ i' = i + 1
    /\ UNCHANGED <<cacheSizeBytes, cacheLineBytes, isa, pc, buf, live, line,
                   checksum, sink, exitStatus, stderrLines, m5ops, firstSum>>

\* cold loop exit; the prime loop starts with line = 0
ColdExit ==
    /\ pc = "cold"
    /\ ~(i < cacheSizeBytes)
    /\ line' = 0
    /\ pc' = "prime"
    /\ UNCHANGED <<cacheSizeBytes, cacheLineBytes, isa, buf, mem, live, i, checksum, sink,
                   exitStatus, stderrLines, m5ops, trace, firstSum>>

\* (variant: the stride is one byte instead of one cache line)
PrimeStepUnitStride ==
    /\ pc = "prime"
    /\ line < NUM_CACHE_LINES
    /\ LET offset == line
       IN \E v \in ReadByte(mem[offset]) :
            /\ mem' = [mem EXCEPT ![offset] = (v + 1) % UINT8]
            /\ trace' = trace \o <<Event("prime_r", offset, v),
                                   Event("prime_w", offset, (v + 1) % UINT8)>>
    /\ line' = line + 1
    /\ UNCHANGED <<cacheSizeBytes, cacheLineBytes, isa, pc, buf, live, i,
                   checksum, sink, exitStatus, stderrLines, m5ops, firstSum>>

\* int offset = line * CACHE_LINE_BYTES; buf[offset] += 1; line++
PrimeStep ==
    /\ pc = "prime"
    /\ line < NUM_CACHE_LINES
    /\ LET offset == line * cacheLineBytes
       IN \E v \in ReadByte(mem[offset]) :
            /\ mem' = [mem EXCEPT ![offset] = (v + 1) % UINT8]
            /\ trace' = trace \o <<Event("prime_r", offset, v),
                                   Event("prime_w", offset, (v + 1) % UINT8)>>
    /\ line' = line + 1
    /\ UNCHANGED <<cacheSizeBytes, cacheLineBytes, isa, pc, buf, live, i,
                   checksum, sink, exitStatus, stderrLines, m5ops, firstSum>>

\* prime loop exit
PrimeExit ==
    /\ pc = "prime"
    /\ ~(line < NUM_CACHE_LINES)
    /\ pc' = "verify_init"
    /\ UNCHANGED <<cacheSizeBytes, cacheLineBytes, isa, buf, mem, live, i, line, checksum,
                   sink, exitStatus, stderrLines, m5ops, trace, firstSum>>

\* uint64_t checksum = 0; line = 0
VerifyInit ==
    /\ pc = "verify_init"
    /\ checksum' = 0
    /\ line' = 0
    /\ pc' = "verify"
    /\ UNCHANGED <<cacheSizeBytes, cacheLineBytes, isa, buf, mem, live, i, sink, exitStatus,
                   stderrLines, m5ops, trace, firstSum>>

\* (variant: the byte is assigned to the checksum instead of added)
VerifyStepAssign ==
    /\ pc = "verify"
    /\ line < NUM_CACHE_LINES
    /\ LET offset == line * cacheLineBytes
       IN \E v \in ReadByte(mem[offset]) :
            /\ checksum' = v
            /\ trace' = Append(trace, Event("verify_r", offset, v))
    /\ line' = line + 1
    /\ UNCHANGED <<cacheSizeBytes, cacheLineBytes, isa, pc, buf, mem, live, i, sink,
                   exitStatus, stderrLines, m5ops, firstSum>>

\* (variant: the loop body of the prime pass repeated in the verify pass)
VerifyStepIncrements ==
    /\ pc = "verify"
    /\ line < NUM_CACHE_LINES
    /\ LET offset == line * cacheLineBytes
       IN \E v \in ReadByte(mem[offset]) :
            /\ mem' = [mem EXCEPT ![offset] = (v + 1) % UINT8]
            /\ checksum' = checksum + ((v + 1) % UINT8)
            /\ trace' = Append(trace, Event("verify_r", offset, v))
    /\ line' = line + 1
    /\ UNCHANGED <<cacheSizeBytes, cacheLineBytes, isa, pc, buf, live, i, sink,
                   exitStatus, stderrLines, m5ops, firstSum>>

\* checksum += buf[line * CACHE_LINE_BYTES]; line++
\* (checksum is a uint64_t and grows by at most 255 per line, at most
\* 255 * NUM_CACHE_LINES in all, so the addition never wraps)
VerifyStep ==
    /\ pc = "verify"
    /\ line < NUM_CACHE_LINES
    /\ LET offset == line * cacheLineBytes
       IN \E v \in ReadByte(mem[offset]) :
            /\ checksum' = checksum + v
            /\ trace' = Append(trace, Event("verify_r", offset, v))
    /\ line' = line + 1
    /\ UNCHANGED <<cacheSizeBytes, cacheLineBytes, isa, pc, buf, mem, live, i, sink,
                   exitStatus, stderrLines, m5ops, firstSum>>

\* verify loop exit
VerifyExit ==
    /\ pc = "verify"
    /\ ~(line < NUM_CACHE_LINES)
    /\ pc' = "sink"
    /\ UNCHANGED <<cacheSizeBytes, cacheLineBytes, isa, buf, mem, live, i, line, checksum,
                   sink, exitStatus, stderrLines, m5ops, trace, firstSum>>

\* sink = (uint8_t)checksum;
StoreSink ==
    /\ pc = "sink"
    /\ sink' = checksum % UINT8
    /\ trace' = Append(trace, Event("sink_w", 0, checksum % UINT8))
    /\ pc' = "free"
    /\ UNCHANGED <<cacheSizeBytes, cacheLineBytes, isa, buf, mem, live, i, line, checksum,
                   exitStatus, stderrLines, m5ops, firstSum>>

\* (variant: main returns without freeing the buffer)
ReturnWithoutFree ==
    /\ pc = "free"
    /\ trace' = Append(trace, Event("exit", 0, 0))
    /\ exitStatus' = 0
    /\ pc' = "done"
    /\ UNCHANGED <<cacheSizeBytes, cacheLineBytes, isa, buf, mem, live, i, line,
                   checksum, sink, stderrLines, m5ops, firstSum>>

\* free(buf); return 0;
FreeAndReturn ==
    /\ pc = "free"
    /\ trace' = trace \o <<Event("free", 0, cacheSizeBytes), Event("exit", 0, 0)>>
    /\ live' = FALSE
    /\ exitStatus' = 0
    /\ pc' = "done"
    /\ UNCHANGED <<cacheSizeBytes, cacheLineBytes, isa, buf, mem, i, line, checksum,
                   sink, stderrLines, m5ops, firstSum>>

Next ==
    \/ Alloc
    \/ AllocFailed
    \/ AllocOk
    \/ ColdStep
    \/ ColdExit
    \/ PrimeStep
    \/ PrimeExit
    \/ VerifyInit
    \/ VerifyStep
    \/ VerifyExit
    \/ StoreSink
    \/ FreeAndReturn

Spec == Init /\ [][Next]_vars

\* main is the only thread and every step of it is taken as soon as enabled.
FairSpec == Spec /\ WF_vars(Next)

\* The shipped build together with the adjusted ones.
SpecAll == (Init \/ InitShipped) /\ [][Next]_vars

-----------------------------------------------------------------------------
(* The m5ops.  Each is one inline-asm statement selected by the #if chain;   *)
(* the value is the sequence of magic instructions the statement executes   *)
(* (with the scratch registers it zeroes first), empty for the fallback.    *)

\* (variant: no #else branch, the x86 encoding is used on every other target)
m5_reset_stats_NoFallback(a) ==
    CASE a = "aarch64" -> <<[insn |-> ".inst 0xff000110", zeroed |-> {"x0", "x1"}]>>
      [] a = "arm"     -> <<[insn |-> ".word 0xee900110", zeroed |-> {"r0", "r1"}]>>
      [] OTHER         -> <<[insn |-> ".byte 0x0f, 0x04; .word 0x40", zeroed |-> {}]>>

m5_reset_stats(a) ==
    CASE a = "x86"     -> <<[insn |-> ".byte 0x0f, 0x04; .word 0x40", zeroed |-> {}]>>
      [] a = "aarch64" -> <<[insn |-> ".inst 0xff000110", zeroed |-> {"x0", "x1"}]>>
      [] a = "arm"     -> <<[insn |-> ".word 0xee900110", zeroed |-> {"r0", "r1"}]>>
      [] OTHER         -> <<>>

m5_dump_stats(a) ==
    CASE a = "x86"     -> <<[insn |-> ".byte 0x0f, 0x04; .word 0x41", zeroed |-> {}]>>
      [] a = "aarch64" -> <<[insn |-> ".inst 0xff000111", zeroed |-> {"x0", "x1"}]>>
      [] a = "arm"     -> <<[insn |-> ".word 0xee900111", zeroed |-> {"r0", "r1"}]>>
      [] OTHER         -> <<>>

SignalOps == {"m5_reset_stats", "m5_dump_stats"}

SignalCalls == Len(SelectSeq(trace, LAMBDA e : Op(e) \in SignalOps))

\* A call of m5_reset_stats() placed somewhere in main.
CallResetStats ==
    /\ pc # "done"
    /\ SignalCalls < MaxSignals
    /\ m5ops' = m5ops \o m5_reset_stats(isa)
    /\ trace' = Append(trace, Event("m5_reset_stats", 0, 0))
    /\ UNCHANGED <<cacheSizeBytes, cacheLineBytes, isa, pc, buf, mem, live, i,
                   line, checksum, sink, exitStatus, stderrLines, firstSum>>

\* A call of m5_dump_stats() placed somewhere in main.
CallDumpStats ==
    /\ pc # "done"
    /\ SignalCalls < MaxSignals
    /\ m5ops' = m5ops \o m5_dump_stats(isa)
    /\ trace' = Append(trace, Event("m5_dump_stats", 0, 0))
    /\ UNCHANGED <<cacheSizeBytes, cacheLineBytes, isa, pc, buf, mem, live, i,
                   line, checksum, sink, exitStatus, stderrLines, firstSum>>

InitSignals ==
    /\ \E g \in SmallGeometries : cacheSizeBytes = g[1] /\ cacheLineBytes = g[2]
    /\ Start

NextSignals ==
    \/ Next
    \/ CallResetStats
    \/ CallDumpStats

\* main with calls of the two m5ops at arbitrary places.
SpecSignals == InitSignals /\ [][NextSignals]_vars

-----------------------------------------------------------------------------
(* The verify pass on its own: the loop of Phase 2 run on an arbitrary     *)
(* buffer, then run once more.                                             *)

\* byte values the buffer is filled with
ByteSamples == {0, 1, 255}

\* largest buffer of the stand-alone verify pass
MaxVerifySize == 3

InitVerify ==
    /\ \E g \in SmallGeometries :
          /\ g[1] <= MaxVerifySize
          /\ cacheSizeBytes = g[1]
          /\ cacheLineBytes = g[2]
    /\ isa \in {"other"}
    /\ pc = "verify_init"
    /\ buf = PTR
    /\ mem \in [0..(cacheSizeBytes - 1) -> ByteSamples]
    /\ live = TRUE
    /\ i = cacheSizeBytes
    /\ line = 0
    /\ checksum = 0
    /\ sink = 0
    /\ exitStatus = NoExit
    /\ stderrLines = <<>>
    /\ m5ops = <<>>
    /\ trace = <<>>
    /\ firstSum = NoSum

\* the pass has finished for the first time: keep its checksum and run it again
VerifyAgain ==
    /\ pc = "sink"
    /\ firstSum = NoSum
    /\ firstSum' = checksum
    /\ pc' = "verify_init"
    /\ UNCHANGED <<cacheSizeBytes, cacheLineBytes, isa, buf, mem, live, i, line,
                   checksum, sink, exitStatus, stderrLines, m5ops, trace>>

NextVerify ==
    \/ VerifyInit
    \/ VerifyStep
    \/ VerifyExit
    \/ VerifyAgain

SpecVerify == InitVerify /\ [][NextVerify]_vars

-----------------------------------------------------------------------------
(* Vocabulary of the properties *)

lineCount == cacheSizeBytes \div cacheLineBytes

ColdOps == {"cold_w"}
PrimeOps == {"prime_r", "prime_w"}
VerifyOps == {"verify_r"}
AccessOps == ColdOps \cup PrimeOps \cup VerifyOps

\* positions of trace holding an operation of the set ops
Positions(ops) == {k \in DOMAIN trace : Op(trace[k]) \in ops}

Only(ops) == SelectSeq(trace, LAMBDA e : Op(e) \in ops)

Min(S) == CHOOSE x \in S : \A y \in S : x <= y
Max(S) == CHOOSE x \in S : \A y \in S : y <= x

\* every position of A lies before every position of B
Before(A, B) == A = {} \/ B = {} \/ Max(A) < Min(B)

AllocSucceeded == buf = PTR
Finished == pc = "done"

\* the cold value of the byte at offset k, and its value after one increment
ColdValue(k) == k % 256
PrimedValue(k) == (ColdValue(k) + 1) % 256

\* the writes of a cold touch that has reached offset n
ColdWrites(n) == [k \in 1..n |-> <<"cold_w", k - 1, ColdValue(k - 1)>>]

\* the accesses of a prime pass that has handled n lines
PrimeAccesses(n) ==
    [k \in 1..(2 * n) |->
        LET off == ((k - 1) \div 2) * cacheLineBytes
        IN IF k % 2 = 1 THEN <<"prime_r", off, ColdValue(off)>>
                        ELSE <<"prime_w", off, PrimedValue(off)>>]

\* the reads of a verify pass that has handled n lines
VerifyReads(n) ==
    [k \in 1..n |-> <<"verify_r", (k - 1) * cacheLineBytes,
                      PrimedValue((k - 1) * cacheLineBytes)>>]

IsLineStart(k) == k % cacheLineBytes = 0 /\ k \div cacheLineBytes < lineCount

RECURSIVE SumPrimed(_)
SumPrimed(n) ==
    IF n = 0 THEN 0
    ELSE SumPrimed(n - 1) + PrimedValue((n - 1) * cacheLineBytes)

-----------------------------------------------------------------------------
(* C1, C2: the statistics bracket *)

ResetCalls == Positions({"m5_reset_stats"})
DumpCalls == Positions({"m5_dump_stats"})

\* C1: a run of main whose allocation succeeded has emitted exactly one reset
\* signal and exactly one dump signal, the reset after the last cold write and
\* before the first prime access, the dump after the sink store and before
\* the release.
C1_OneResetOneDumpInOrder ==
    (Finished /\ AllocSucceeded) =>
        /\ Cardinality(ResetCalls) = 1
        /\ Cardinality(DumpCalls) = 1
        /\ Before(Positions(ColdOps), ResetCalls)
        /\ Before(ResetCalls, Positions(PrimeOps))
        /\ Before(Positions({"sink_w"}), DumpCalls)
        /\ Before(DumpCalls, Positions({"free"}))

\* C2: every prime or verify access happens after a reset signal and before
\* any dump signal, all prime accesses before any verify access, and the cold
\* writes are the only accesses outside the bracket.
C2_AccessesInsideBracket ==
    LET measured == Positions(PrimeOps \cup VerifyOps)
    IN /\ Before(Positions(PrimeOps), Positions(VerifyOps))
       /\ Before(Positions(ColdOps), ResetCalls)
       /\ measured # {} =>
             /\ ResetCalls # {}
             /\ Max(ResetCalls) < Min(measured)
             /\ Before(measured, DumpCalls)

-----------------------------------------------------------------------------
(* C3: allocation failure *)

\* C3: when aligned_alloc returns NULL, main writes exactly one line to stderr
\* and returns 1, and it does nothing else: no cold write, no prime or verify
\* access, no sink store, no m5op, no free.
C3_AllocationFailure ==
    buf = NULL =>
        /\ pc \in {"check", "done"}
        /\ mem = <<>> /\ live = FALSE /\ m5ops = <<>> /\ sink = 0
        /\ pc = "check" =>
              /\ trace = <<Event("alloc_fail", 0, cacheSizeBytes)>>
              /\ stderrLines = <<>>
              /\ exitStatus = NoExit
        /\ Finished =>
              /\ trace = <<Event("alloc_fail", 0, cacheSizeBytes),
                           Event("stderr", 0, 1), Event("exit", 0, 1)>>
              /\ Len(stderrLines) = 1
              /\ exitStatus = 1

C3_Witness == Finished /\ buf = NULL /\ exitStatus = 1

-----------------------------------------------------------------------------
(* C4: the successful run terminates and releases the buffer once *)

C4_Safety ==
    AllocSucceeded =>
        /\ stderrLines = <<>>
        /\ exitStatus \in {NoExit, 0}
        /\ Cardinality(Positions({"free"})) <= 1
        /\ Before(Positions(AccessOps \cup {"sink_w"}), Positions({"free"}))
        /\ live = (Positions({"free"}) = {})
        /\ Finished =>
              /\ exitStatus = 0
              /\ Cardinality(Positions({"free"})) = 1
              /\ Cardinality(Positions({"sink_w"})) = 1
              /\ Len(Only(VerifyOps)) = lineCount

\* C4: once the allocation has succeeded main eventually returns 0; by then it
\* has freed the buffer exactly once, after the last verify read and the sink
\* store, no access follows the free, and nothing is written to stderr.
C4_SuccessTerminates ==
    /\ AllocSucceeded ~> (Finished /\ exitStatus = 0)
    /\ []C4_Safety

C4_Witness ==
    /\ Finished /\ AllocSucceeded /\ exitStatus = 0 /\ live = FALSE
    /\ lineCount >= 2

-----------------------------------------------------------------------------
(* C5: coverage of the prime pass *)

\* C5: the prime pass reads and writes back (+1 modulo 256) the first byte of
\* each of the lineCount lines, once each, in ascending order, and touches no
\* other byte: every other byte keeps its cold value.
C5_PrimeCoverage ==
    (AllocSucceeded /\ pc \notin {"check", "cold"}) =>
        LET n == IF pc = "prime" THEN line ELSE lineCount
        IN /\ Only(PrimeOps) = PrimeAccesses(n)
           /\ \A k \in 0..(cacheSizeBytes - 1) :
                 mem[k] = IF IsLineStart(k) /\ k \div cacheLineBytes < n
                          THEN PrimedValue(k) ELSE ColdValue(k)

C5_Witness ==
    /\ pc = "verify_init" /\ AllocSucceeded
    /\ lineCount >= 2 /\ cacheLineBytes >= 2
    /\ Len(Only(PrimeOps)) = 2 * lineCount

-----------------------------------------------------------------------------
(* C6: the checksum *)

Shipped == cacheSizeBytes = 16384 /\ cacheLineBytes = 64

\* C6: after the cold touch and one prime pass the verify pass reads, line by
\* line, the byte ((line * cacheLineBytes) mod 256 + 1) mod 256, the checksum
\* is the sum of these bytes and sink receives the checksum modulo 256; with
\* the shipped constants there are 256 lines, every byte read is
\* ((line * 64) mod 256) + 1 and the checksum is 24832.
C6_Checksum ==
    (AllocSucceeded /\ pc \in {"sink", "free", "done"}) =>
        /\ Only(VerifyOps) = VerifyReads(lineCount)
        /\ checksum = SumPrimed(lineCount)
        /\ pc # "sink" => sink = checksum % 256
        /\ Shipped =>
              /\ lineCount = 256
              /\ \A l \in 0..255 :
                    Val(Only(VerifyOps)[l + 1]) = ((l * 64) % 256) + 1
              /\ checksum = 24832

C6_Witness ==
    /\ Finished /\ AllocSucceeded
    /\ cacheSizeBytes = 6 /\ cacheLineBytes = 2
    /\ Len(Only(VerifyOps)) = 3
    /\ checksum = 1 + 3 + 5 /\ sink = 9

-----------------------------------------------------------------------------
(* C7: the verify pass only reads *)

\* C7: no step of the verify pass changes a byte of the buffer, and a second
\* verify pass run right after the first yields the same checksum.
C7_VerifyReadsOnly ==
    /\ [][(pc \in {"verify_init", "verify"}) => UNCHANGED mem]_vars
    /\ []((pc = "sink" /\ firstSum # NoSum) => checksum = firstSum)

C7_Witness ==
    /\ pc = "sink" /\ firstSum # NoSum
    /\ lineCount >= 2 /\ checksum > 255
    /\ Len(Only(VerifyOps)) = 2 * lineCount

-----------------------------------------------------------------------------
(* C8: the fallback m5ops are inert *)

IsSignalStep ==
    /\ Len(trace') = Len(trace) + 1
    /\ Op(trace'[Len(trace')]) \in SignalOps

\* C8: on a target without a recognized encoding a call of m5_reset_stats or
\* m5_dump_stats changes nothing of the program (buffer, checksum, sink, exit
\* status, position) and executes no magic instruction, and main ends with
\* the buffer, checksum, sink and exit status it has without any such call.
C8_FallbackInert ==
    /\ [][(isa = "other" /\ IsSignalStep) =>
            UNCHANGED <<pc, buf, mem, live, i, line, checksum, sink,
                        exitStatus, stderrLines, m5ops>>]_vars
    /\ []((isa = "other" /\ Finished) =>
            /\ m5ops = <<>>
            /\ buf = NULL => (mem = <<>> /\ sink = 0 /\ exitStatus = 1)
            /\ AllocSucceeded =>
                  /\ mem = [k \in 0..(cacheSizeBytes - 1) |->
                              IF IsLineStart(k) THEN PrimedValue(k)
                                                ELSE ColdValue(k)]
                  /\ checksum = SumPrimed(lineCount)
                  /\ sink = checksum % 256
                  /\ exitStatus = 0)

C8_Witness ==
    /\ isa = "other" /\ Finished /\ AllocSucceeded
    /\ ResetCalls # {} /\ DumpCalls # {}
    /\ lineCount >= 2

-----------------------------------------------------------------------------
(* C9: the cold touch *)

\* C9: the cold touch writes offsets 0, 1, ..., cacheSizeBytes - 1 once each
\* with the value offset mod 256, right after the allocation and with no read
\* in between, and it is complete before the first access of the prime pass:
\* at that point every byte k of the buffer holds k mod 256.
C9_ColdTouchComplete ==
    (AllocSucceeded /\ pc # "check") =>
        LET n == IF pc = "cold" THEN i ELSE cacheSizeBytes
        IN /\ Only(ColdOps) = ColdWrites(n)
           /\ SubSeq(trace, 2, n + 1) = ColdWrites(n)
           /\ \A k \in 0..(n - 1) : pc = "cold" => mem[k] = ColdValue(k)
           /\ (pc = "prime" /\ line = 0) =>
                 mem = [k \in 0..(cacheSizeBytes - 1) |-> ColdValue(k)]
           /\ Positions(PrimeOps \cup VerifyOps) # {} => n = cacheSizeBytes

C9_Witness ==
    /\ pc = "prime" /\ line = 1 /\ AllocSucceeded
    /\ cacheSizeBytes > 256
    /\ Len(Only(ColdOps)) = cacheSizeBytes

-----------------------------------------------------------------------------
(* C10: offsets stay in range *)

\* offsets of the partial line left over when cacheLineBytes does not divide
\* cacheSizeBytes
TrailingPartialLine ==
    {k \in 0..(cacheSizeBytes - 1) : k >= cacheSizeBytes - (cacheSizeBytes % cacheLineBytes)}

\* C10: for 1 <= cacheLineBytes <= cacheSizeBytes every offset accessed by
\* the cold touch, the prime pass and the verify pass is in
\* 0..cacheSizeBytes-1; the number of lines handled is the integer quotient,
\* and no byte of a trailing partial line is accessed by the prime or the
\* verify pass.
C10_OffsetsInRange ==
    /\ 1 <= cacheLineBytes /\ cacheLineBytes <= cacheSizeBytes
    /\ \A k \in Positions(AccessOps) : Off(trace[k]) \in 0..(cacheSizeBytes - 1)
    /\ \A k \in Positions(PrimeOps \cup VerifyOps) :
          Off(trace[k]) \notin TrailingPartialLine
    /\ pc \in {"verify_init", "sink", "free"} =>
          /\ line * cacheLineBytes <= cacheSizeBytes
          /\ cacheSizeBytes < (line + 1) * cacheLineBytes

C10_Witness ==
    /\ Finished /\ AllocSucceeded
    /\ cacheSizeBytes % cacheLineBytes # 0
    /\ lineCount >= 2
    /\ Len(Only(VerifyOps)) = lineCount

====
